---- MODULE Spec2Model ----
(***************************************************************************)
(* Model of linprog's geometric vertex-enumeration solver:                 *)
(*   LinearProgrammingConfig / SimplexProblemConfig   (configuration.py,   *)
(*   components.py), SimplexSolver (solver.py) and                         *)
(*   SimplexProblemRepresentation (components.py).                         *)
(*                                                                         *)
(* Numbers.  Python floats are modelled by exact arithmetic.  Problem      *)
(* data (A, b, c) are integers.  The solution of a square sub-system is    *)
(* the exact rational point num[j] / den (Cramer's rule), on which the     *)
(* feasibility test with tolerance 1e-8 is evaluated exactly.  A value     *)
(* that has gone through np.round(., 8) is a fixed-point integer in units  *)
(* of 10^-8 ("Fix"); vertex coordinates, objective values and the step     *)
(* are all in that unit.                                                   *)
(*                                                                         *)
(* Python None for an optional value is the empty sequence <<>>, a         *)
(* present value v is <<v>>; a None entry of var_bounds is the tag "None". *)
(***************************************************************************)
EXTENDS Integers, Sequences, FiniteSets, TLC

\* np.round(point, 8): number of decimals kept (solver.py:76)
Decimals == 8

\* one unit of the fixed-point representation is 10^-Decimals
Scale == 10 ^ Decimals

\* the feasibility tolerance 1e-8 (solver.py:65,68,71) is Tol / Scale
Tol == 1

Fix(k) == k * Scale

Abs(x) == IF x < 0 THEN -x ELSE x

Min2(x, y) == IF x <= y THEN x ELSE y

Range(s) == {s[i] : i \in 1..Len(s)}

RECURSIVE SumSeq(_)
SumSeq(s) == IF s = <<>> THEN 0 ELSE Head(s) + SumSeq(Tail(s))

\* np.dot of two vectors; numpy raises ValueError on a shape mismatch,
\* so callers guard Len(u) = Len(v).
Dot(u, v) == SumSeq([j \in 1..Len(u) |-> u[j] * v[j]])

(***************************************************************************)
(* itertools.combinations(range(N), k): the k-subsets of the row indices   *)
(* in lexicographic order (indices are 1-based here).                      *)
(***************************************************************************)
RECURSIVE CombosFrom(_, _, _)
CombosFrom(lo, N, k) ==
    IF k = 0 THEN << <<>> >>
    ELSE IF lo > N THEN <<>>
    ELSE LET with == CombosFrom(lo + 1, N, k - 1)
             without == CombosFrom(lo + 1, N, k)
         IN  [i \in 1..Len(with) |-> <<lo>> \o with[i]] \o without

\* the combinations that leave the first row out
CombinationsWithoutFirstRow(N, k) == CombosFrom(2, N, k)

Combinations(N, k) == CombosFrom(1, N, k)

(***************************************************************************)
(* Linear algebra on integer matrices (sequences of rows).                 *)
(***************************************************************************)
Minor(M, col) ==
    [i \in 1..(Len(M) - 1) |->
        [j \in 1..(Len(M) - 1) |-> M[i + 1][IF j < col THEN j ELSE j + 1]]]

RECURSIVE Det(_)
Det(M) ==
    IF Len(M) = 1 THEN M[1][1]
    ELSE SumSeq([j \in 1..Len(M) |->
                   (IF j % 2 = 1 THEN 1 ELSE -1) * M[1][j] * Det(Minor(M, j))])

ReplaceCol(M, col, v) ==
    [i \in 1..Len(M) |-> [j \in 1..Len(M) |-> IF j = col THEN v[i] ELSE M[i][j]]]

\* np.linalg.matrix_rank(A_eq) < num_vars  (a square matrix is rank
\* deficient exactly when its determinant vanishes)
RankDeficient(Aeq) == Det(Aeq) = 0

\* np.linalg.solve(A_eq, b_eq) for a non-singular system, by Cramer's rule:
\* the exact point num[j] / den with den > 0.
LinalgSolve(Aeq, beq) ==
    LET d == Det(Aeq)
        s == IF d < 0 THEN -1 ELSE 1
    IN  [num |-> [j \in 1..Len(Aeq) |-> s * Det(ReplaceCol(Aeq, j, beq))],
         den |-> s * d]

\* np.round(num / den, 8) as a fixed-point integer: round half to even.
RoundDiv(num, den) ==
    LET q  == num \div den
        r  == num % den
        fq == (r * Scale) \div den
        fr == (r * Scale) % den
        up == \/ 2 * fr > den
              \/ 2 * fr = den /\ fq % 2 = 1
    IN  q * Scale + fq + (IF up THEN 1 ELSE 0)

RoundPoint(point) == [j \in 1..Len(point.num) |-> RoundDiv(point.num[j], point.den)]

(***************************************************************************)
(* SimplexSolver._calculate_intersection (solver.py:31-89).                *)
(***************************************************************************)
NumVars(cfg) == Len(cfg.A[1])

\* var_bounds = self.config.var_bounds or [">="] * num_vars   (solver.py:43)
EffectiveVarBounds(cfg) ==
    IF cfg.var_bounds # <<>> THEN cfg.var_bounds
    ELSE [i \in 1..NumVars(cfg) |-> ">="]

\* a synthetic row for every tag other than None
BoundRowIndicesForEveryTag(cfg) ==
    LET vb == EffectiveVarBounds(cfg)
    IN  SelectSeq([i \in 1..Len(vb) |-> i], LAMBDA i : vb[i] # "None")

\* the indices i, in order, for which a synthetic row is appended
\* (solver.py:44-45)
BoundRowIndices(cfg) ==
    LET vb == EffectiveVarBounds(cfg)
    IN  SelectSeq([i \in 1..Len(vb) |-> i], LAMBDA i : vb[i] = ">=")

UnitRow(n, i) == [j \in 1..n |-> IF j = i THEN 1 ELSE 0]

\* row[i] = 1.0 on a row of num_vars entries raises IndexError when the
\* bound list is longer than a row of A (solver.py:46-47)
AugmentRaises(cfg) == \E i \in Range(BoundRowIndices(cfg)) : i > NumVars(cfg)

\* A after np.vstack of the synthetic rows (solver.py:48)
AugmentedA(cfg) ==
    LET idx == BoundRowIndices(cfg)
    IN  cfg.A \o [k \in 1..Len(idx) |-> UnitRow(NumVars(cfg), idx[k])]

\* b after np.append of the synthetic zeros (solver.py:49)
AugmentedB(cfg) == cfg.b \o [k \in 1..Len(BoundRowIndices(cfg)) |-> 0]

\* self.config.constraint_signs + [">="] * num_vars   (solver.py:64)
ExtendedSigns(cfg) == cfg.constraint_signs \o [j \in 1..NumVars(cfg) |-> ">="]

\* One row of the feasibility check on the exact point (solver.py:65-73).
\* With s = a_row . num - b_val * den, the row's defect is s / den, and
\* s / den > 1e-8  iff  s * Scale > Tol * den  iff  s > (Tol * den) \div Scale.
RowFeasible(aRow, bVal, sign, point) ==
    LET s   == Dot(aRow, point.num) - bVal * point.den
        lim == (Tol * point.den) \div Scale
    IN  /\ sign = "<=" => ~(s > lim)
        /\ sign = ">=" => ~(-s > lim)
        /\ sign = "="  => ~(Abs(s) > lim)

\* zip(A, b, signs) stops at the shortest of the three (solver.py:64)
Feasible(point, Aaug, baug, signs) ==
    \A i \in 1..Min2(Len(Aaug), Min2(Len(baug), Len(signs))) :
        RowFeasible(Aaug[i], baug[i], signs[i], point)

\* a dict that stored every assignment as a new entry
DictSetAlwaysAppends(vertices, key) == Append(vertices, key)

\* vertices[key] = None on an insertion-ordered dict: a key already
\* present keeps its position (solver.py:76)
DictSet(vertices, key) ==
    IF key \in Range(vertices) THEN vertices ELSE Append(vertices, key)

\* b[list(combo)] raises IndexError for an index beyond b (solver.py:57);
\* only LinAlgError is caught (solver.py:78)
ComboRaises(combo, baug) == \E i \in 1..Len(combo) : combo[i] > Len(baug)

\* what one combination contributes (solver.py:56-76): nothing, <<>>, when
\* it is rank deficient or its point is infeasible, else the rounded point
ComboPoint(combo, Aaug, baug, signs) ==
    LET Aeq == [i \in 1..Len(combo) |-> Aaug[combo[i]]]
        beq == [i \in 1..Len(combo) |-> baug[combo[i]]]
    IN  IF RankDeficient(Aeq) THEN <<>>
        ELSE LET point == LinalgSolve(Aeq, beq)
             IN  IF Feasible(point, Aaug, baug, signs) THEN <<RoundPoint(point)>>
                 ELSE <<>>

\* the assignments of line 76, in order, on the key list of `vertices`
RECURSIVE StoreAll(_, _, _)
StoreAll(found, k, keys) ==
    IF k > Len(found) THEN keys
    ELSE StoreAll(found, k + 1, DictSet(keys, found[k]))

\* the loop over the combinations (solver.py:54-79).  keys is the key list
\* of the dict `vertices`; discovered records every feasible rounded point
\* in the order line 76 stores it, repeats included.
CollectVertices(combos, Aaug, baug, signs) ==
    IF \E k \in 1..Len(combos) : ComboRaises(combos[k], baug)
    THEN [raised |-> "IndexError", keys |-> <<>>, discovered |-> <<>>]
    ELSE LET per  == [k \in 1..Len(combos) |-> ComboPoint(combos[k], Aaug, baug, signs)]
             hits == SelectSeq(per, LAMBDA e : e # <<>>)
             discovered == [i \in 1..Len(hits) |-> hits[i][1]]
         IN  [raised |-> "none", keys |-> StoreAll(discovered, 1, <<>>),
              discovered |-> discovered]

\* string.ascii_uppercase
AsciiUppercase ==
    << "A", "B", "C", "D", "E", "F", "G", "H", "I", "J", "K", "L", "M",
       "N", "O", "P", "Q", "R", "S", "T", "U", "V", "W", "X", "Y", "Z" >>

\* any(pt): some coordinate is non-zero
AnyNonZero(pt) == \E j \in 1..Len(pt) : pt[j] # 0

\* naming by position alone
VertexNameByIndex(idx, pt) == AsciiUppercase[idx + 1]

\* name = ascii_uppercase[idx] if any(pt) else "O", idx counted from 0
\* over all keys (solver.py:84-85)
VertexName(idx, pt) == IF AnyNonZero(pt) THEN AsciiUppercase[idx + 1] ELSE "O"

\* ascii_uppercase[idx] raises IndexError from idx = 26 on
NamingRaises(keys) ==
    \E i \in 1..Len(keys) : AnyNonZero(keys[i]) /\ i - 1 >= Len(AsciiUppercase)

\* the whole call: the exception raised ("none" if it returned), the two
\* returned lists, and the discovery record
EnumRaised ==
    [raised |-> "IndexError", names |-> <<>>, values |-> <<>>, discovered |-> <<>>]

_calculate_intersection(cfg) ==
    IF AugmentRaises(cfg) THEN EnumRaised
    ELSE LET Aaug == AugmentedA(cfg)
             baug == AugmentedB(cfg)
             got  == CollectVertices(Combinations(Len(Aaug), NumVars(cfg)),
                                     Aaug, baug, ExtendedSigns(cfg))
         IN  IF got.raised # "none" \/ NamingRaises(got.keys) THEN EnumRaised
             ELSE [raised |-> "none",
                   names  |-> [i \in 1..Len(got.keys) |-> VertexName(i - 1, got.keys[i])],
                   values |-> got.keys,
                   discovered |-> got.discovered]

(***************************************************************************)
(* SimplexProblemRepresentation (components.py:65-208).                    *)
(*                                                                         *)
(* objective_function is [kind |-> "linear", c, f |-> <<>>] for a          *)
(* coefficient list, or [kind |-> "callable", c |-> <<>>, f] where f maps  *)
(* each point of the vertex list to the value the callable returns there.  *)
(***************************************************************************)
\* str.lower() on the objective types the model draws (components.py:90)
Lower(t) ==
    CASE t = "MAX" -> "max"
      [] t = "MIN" -> "min"
      [] OTHER -> t

\* SimplexProblemRepresentation.__init__ (components.py:86-90)
NewRepresentationObject(option, names, values, objf, objective_type) ==
    [option |-> option, coordinates_names |-> names, coordinates_values |-> values,
     objective_function |-> objf, objective_type |-> Lower(objective_type)]

LinearObjective(c) == [kind |-> "linear", c |-> c, f |-> <<>>]

\* np.dot(c, x) raises ValueError when the lengths differ
\* (components.py:109, 173)
ZValsRaises(rep) ==
    /\ rep.objective_function.kind = "linear"
    /\ \E i \in 1..Len(rep.coordinates_values) :
          Len(rep.coordinates_values[i]) # Len(rep.objective_function.c)

\* z_vals (components.py:105-109, 169-173)
ZVals(rep) ==
    [i \in 1..Len(rep.coordinates_values) |->
        IF rep.objective_function.kind = "callable"
        THEN rep.objective_function.f[rep.coordinates_values[i]]
        ELSE Dot(rep.objective_function.c, rep.coordinates_values[i])]

SeqMax(z) == CHOOSE v \in Range(z) : \A w \in Range(z) : w <= v

SeqMin(z) == CHOOSE v \in Range(z) : \A w \in Range(z) : v <= w

\* an argmax that returns the last index of the maximum
ArgMaxLast(z) == (CHOOSE i \in 1..Len(z) : z[i] = SeqMax(z) /\ \A k \in (i + 1)..Len(z) : z[k] # SeqMax(z)) - 1

\* np.argmax / np.argmin: the first index (counted from 0) of the extreme
ArgMax(z) == (CHOOSE i \in 1..Len(z) : z[i] = SeqMax(z) /\ \A k \in 1..(i - 1) : z[k] # SeqMax(z)) - 1

ArgMin(z) == (CHOOSE i \in 1..Len(z) : z[i] = SeqMin(z) /\ \A k \in 1..(i - 1) : z[k] # SeqMin(z)) - 1

\* the two directions exchanged
BestIdxReversed(rep, z) == IF rep.objective_type = "max" THEN ArgMin(z) ELSE ArgMax(z)

\* best_idx (components.py:112-115, 175-179)
BestIdx(rep, z) == IF rep.objective_type = "max" THEN ArgMax(z) ELSE ArgMin(z)

\* the number of objective evaluations made before np.dot raises
FirstMismatch(rep) ==
    CHOOSE i \in 1..Len(rep.coordinates_values) :
        /\ Len(rep.coordinates_values[i]) # Len(rep.objective_function.c)
        /\ \A k \in 1..(i - 1) :
              Len(rep.coordinates_values[k]) = Len(rep.objective_function.c)

\* what a call leaves behind: the exception raised ("none" if it returned),
\* the number of objective evaluations made, the locals of the selection,
\* whether the report was printed, and the value returned (<<>> for None)
Raised(kind, evals) ==
    [raised |-> kind, evals |-> evals, z_vals |-> <<>>, best_idx |-> <<>>, best_name |-> <<>>,
     best_coords |-> <<>>, best_z |-> <<>>, printed |-> FALSE, returned |-> <<>>]

\* a check that lets every option through
OptionAlwaysAccepted(rep, wanted) == FALSE

\* if self.option != "coordinates" / "objective": raise ValueError
\* (components.py:98-99, 166-167)
OptionRejected(rep, wanted) == rep.option # wanted

\* coordinate_method (components.py:92-156)
coordinate_method(rep) ==
    IF OptionRejected(rep, "coordinates") THEN Raised("ValueError", 0)
    ELSE IF rep.coordinates_values = <<>> THEN Raised("IndexError", 0)
    ELSE IF ZValsRaises(rep) THEN Raised("ValueError", FirstMismatch(rep) - 1)
    ELSE LET z    == ZVals(rep)
             best == BestIdx(rep, z)
         IN  IF best >= Len(rep.coordinates_names) THEN Raised("IndexError", Len(z))
             ELSE [raised |-> "none", evals |-> Len(z), z_vals |-> z, best_idx |-> <<best>>,
                   best_name |-> <<rep.coordinates_names[best + 1]>>,
                   best_coords |-> <<rep.coordinates_values[best + 1]>>,
                   best_z |-> <<z[best + 1]>>, printed |-> TRUE, returned |-> <<>>]

\* best_z (components.py:177, 180)
BestZ(rep, z) == IF rep.objective_type = "max" THEN SeqMax(z) ELSE SeqMin(z)

\* the lines spaced by twice the step
ObjectiveLinesDoubled(best_z, step) == <<best_z - 2 * step, best_z, best_z + 2 * step>>

\* z_a, z_b, z_c (components.py:185-187)
ObjectiveLines(best_z, step) == <<best_z - step, best_z, best_z + step>>

\* objective_method (components.py:158-208); step is <<>> for None
objective_method(rep, step, print_result) ==
    IF OptionRejected(rep, "objective") THEN Raised("ValueError", 0)
    ELSE IF ZValsRaises(rep) THEN Raised("ValueError", FirstMismatch(rep) - 1)
    ELSE IF rep.coordinates_values = <<>> THEN Raised("ValueError", 0)
    ELSE LET z    == ZVals(rep)
             best == BestIdx(rep, z)
             bz   == BestZ(rep, z)
         IN  IF best >= Len(rep.coordinates_names) THEN Raised("IndexError", Len(z))
             ELSE IF step = <<>> THEN Raised("TypeError", Len(z))
             ELSE [raised |-> "none", evals |-> Len(z), z_vals |-> z, best_idx |-> <<best>>,
                   best_name |-> <<rep.coordinates_names[best + 1]>>,
                   best_coords |-> <<rep.coordinates_values[best + 1]>>,
                   best_z |-> <<bz>>, printed |-> print_result,
                   returned |-> IF print_result THEN <<>>
                                ELSE <<ObjectiveLines(bz, step[1])>>]

(***************************************************************************)
(* LinearProgrammingConfig / SimplexProblemConfig                          *)
(* (configuration.py:16-84, components.py:10-61).                          *)
(***************************************************************************)
\* __init__: the enum fields are only warned about, the problem data are
\* stored as given, and missing var_bounds become [None] * len(c)
\* (configuration.py:50-70, components.py:61).  print_plot keeps its
\* default False: plotting is outside the model.
NewConfigObject(args) ==
    [objective_type   |-> args.objective_type,
     c                |-> args.c,
     A                |-> args.A,
     b                |-> args.b,
     constraint_signs |-> args.constraint_signs,
     var_bounds       |-> IF args.var_bounds # <<>> THEN args.var_bounds
                          ELSE [j \in 1..Len(args.c) |-> "None"],
     option           |-> args.option]

\* f"x_{{{j+1}}}" (configuration.py:151, 178, 211)
VarName(j) == "x_{" \o ToString(j) \o "}"

\* _format_term_for_expression for integer coefficients
\* (configuration.py:86-129)
_format_term_for_expression(coef, var_name, is_first_term) ==
    LET abs_coef      == Abs(coef)
        coef_str_part == IF abs_coef = 1 THEN "" ELSE ToString(abs_coef)
        term_core     == coef_str_part \o var_name
        sign_str      == IF is_first_term
                         THEN (IF coef < 0 THEN "-" ELSE "")
                         ELSE (IF coef < 0 THEN " - " ELSE " + ")
    IN  sign_str \o term_core

\* the loop over a coefficient sequence that skips zeros and joins the
\* formatted terms (configuration.py:147-159, 175-182)
RECURSIVE JoinTerms(_, _, _)
JoinTerms(coefs, j, first) ==
    IF j > Len(coefs) THEN ""
    ELSE IF coefs[j] = 0 THEN JoinTerms(coefs, j + 1, first)
    ELSE _format_term_for_expression(coefs[j], VarName(j), first)
            \o JoinTerms(coefs, j + 1, FALSE)

\* the joined terms alone, without the all-zero case
ExpressionWithoutZeroCase(coefs) == JoinTerms(coefs, 1, TRUE)

\* objective_str / lhs_str (configuration.py:142-159, 170-182)
Expression(coefs) ==
    IF coefs = <<>> \/ \A j \in 1..Len(coefs) : coefs[j] = 0 THEN "0"
    ELSE JoinTerms(coefs, 1, TRUE)

\* tex_sign (configuration.py:184-188)
TexSign(sign_char) ==
    CASE sign_char = "<=" -> "\\leq"
      [] sign_char = ">=" -> "\\geq"
      [] sign_char = "="  -> "="
      [] OTHER -> sign_char

\* one domain clause (configuration.py:210-219)
BoundClause(i, tag) ==
    CASE tag = ">="   -> VarName(i) \o " \\geq 0"
      [] tag = "<="   -> VarName(i) \o " \\leq 0"
      [] tag = "="    -> VarName(i) \o " = 0"
      [] tag = "None" -> VarName(i) \o " \\in \\mathbb{R}"
      [] OTHER -> ""

\* ", ".join(x_{1} .. x_{n}) (configuration.py:206)
RECURSIVE JoinNames(_, _)
JoinNames(n, j) ==
    IF j > n THEN ""
    ELSE VarName(j) \o (IF j < n THEN ", " ELSE "") \o JoinNames(n, j + 1)

\* summary(): the keyword, the objective expression, one line per element
\* of zip(A, b, constraint_signs), and the domain clauses
\* (configuration.py:131-224)
summary(cfg) ==
    [keyword     |-> IF cfg.objective_type = "min" THEN "\\text{min}" ELSE "\\text{max}",
     objective   |-> Expression(cfg.c),
     constraints |->
        [i \in 1..Min2(Len(cfg.A), Min2(Len(cfg.b), Len(cfg.constraint_signs))) |->
            Expression(cfg.A[i]) \o " " \o TexSign(cfg.constraint_signs[i])
               \o " " \o ToString(cfg.b[i])],
     domain      |->
        IF cfg.c = <<>> THEN <<>>
        ELSE IF \A i \in 1..Len(cfg.var_bounds) : cfg.var_bounds[i] = "None"
        THEN << JoinNames(Len(cfg.c), 1) \o " \\in \\mathbb{R}" >>
        ELSE SelectSeq([i \in 1..Len(cfg.var_bounds) |-> BoundClause(i, cfg.var_bounds[i])],
                       LAMBDA t : t # "")]

(***************************************************************************)
(* SimplexSolver.__init__ (solver.py:17-29): a step given for an option    *)
(* other than "objective" is dropped.                                      *)
(***************************************************************************)
NewSolverObject(cfg, step) ==
    [step |-> IF cfg.option # "objective" /\ step # <<>> THEN <<>> ELSE step,
     problem_representation |-> <<>>]

(***************************************************************************)
(* Inputs.                                                                 *)
(***************************************************************************)
\* at most MaxRows constraint rows, right-hand sides in 0..MaxB
MaxRows == 2

MaxB == 1

Signs == {"<=", ">=", "="}

\* the variable counts the model draws
Dimensions == {1, 2}

\* rows of A for one and for two variables
RowChoices(n) ==
    IF n = 1 THEN {<<1>>, <<6>>}
    ELSE {<<1, 1>>, <<1, -1>>}

\* var_bounds arguments: omitted, or one tag per variable
BoundChoices(n) ==
    IF n = 1 THEN {<<>>, <<">=">>, <<"<=">>}
    ELSE {<<>>, <<">=", ">=">>, <<"None", ">=">>}

\* the constructor's arguments
ConfigArgs(objective_type, c, A, b, constraint_signs, var_bounds, option) ==
    [objective_type |-> objective_type, c |-> c, A |-> A, b |-> b,
     constraint_signs |-> constraint_signs, var_bounds |-> var_bounds,
     option |-> option]

\* well-formed problems for the vertex enumerator: n variables, m rows
EnumArgs(n, m) ==
    {ConfigArgs("max", [j \in 1..n |-> 1], A, b, sg, vb, "coordinates") :
        A \in [1..m -> RowChoices(n)], b \in [1..m -> 0..MaxB],
        sg \in [1..m -> Signs], vb \in BoundChoices(n)}

(***************************************************************************)
(* State.                                                                  *)
(*   cfg    the SimplexProblemConfig, <<>> before it is constructed        *)
(*   solver the SimplexSolver: its step and its problem_representation     *)
(*   rep    a SimplexProblemRepresentation constructed by the caller       *)
(*   out    what the last call left: the operation and its arguments, the  *)
(*          exception raised, the enumerated vertices, the selection, the  *)
(*          print and the return value                                     *)
(***************************************************************************)
VARIABLES cfg, solver, rep, out

vars == <<cfg, solver, rep, out>>

NoCall == [raised |-> "none", evals |-> 0, z_vals |-> <<>>, best_idx |-> <<>>,
           best_name |-> <<>>, best_coords |-> <<>>, best_z |-> <<>>,
           printed |-> FALSE, returned |-> <<>>]

NoArgs == [step |-> <<>>, print_result |-> FALSE]

Outcome(op, args, enum, text, call) ==
    [op |-> op, args |-> args, enumerated |-> (enum.raised = "none" /\ op # "none"),
     names |-> enum.names, values |-> enum.values,
     discovered |-> enum.discovered, summary |-> text] @@ call

NoEnum == [raised |-> "skipped", names |-> <<>>, values |-> <<>>, discovered |-> <<>>]

Init ==
    /\ cfg = <<>>
    /\ solver = <<>>
    /\ rep = <<>>
    /\ out = Outcome("none", NoArgs, NoEnum, <<>>, NoCall)

\* SimplexProblemConfig(...) with arguments drawn from Args
NewConfig(Args) ==
    /\ cfg = <<>>
    /\ \E args \in Args : cfg' = <<NewConfigObject(args)>>
    /\ UNCHANGED <<solver, rep, out>>

\* SimplexSolver(config, step)
NewSolver(step) ==
    /\ cfg # <<>>
    /\ solver = <<>>
    /\ solver' = <<NewSolverObject(cfg[1], step)>>
    /\ UNCHANGED <<cfg, rep, out>>

\* solver._calculate_intersection()
CalculateIntersection ==
    /\ solver # <<>>
    /\ \E got \in {_calculate_intersection(cfg[1])} :
           out' = Outcome("_calculate_intersection", NoArgs, got, <<>>,
                          [NoCall EXCEPT !.raised = got.raised])
    /\ UNCHANGED <<cfg, solver, rep>>

NextEnum ==
    \/ NewConfig(UNION {EnumArgs(n, m) : n \in Dimensions, m \in 1..MaxRows})
    \/ NewSolver(<<>>)
    \/ CalculateIntersection

SpecEnum == Init /\ [][NextEnum]_vars

(***************************************************************************)
(* The solver's life cycle: construct a configuration and a solver, then   *)
(* call solve(), summary() or _calculate_intersection().                   *)
(***************************************************************************)
\* objective coefficient lists for n variables
ObjectiveCoefs(n) == {[j \in 1..n |-> 1], [j \in 1..n |-> IF j = 1 THEN 1 ELSE -1]}

\* well-formed problems: n variables, m rows
SolveArgs(n, m) ==
    {ConfigArgs(t, c, A, b, sg, vb, o) :
        A \in [1..m -> RowChoices(n)], b \in [1..m -> 0..MaxB],
        sg \in [1..m -> Signs], vb \in BoundChoices(n),
        c \in ObjectiveCoefs(n), t \in {"max", "min"},
        o \in {"coordinates", "objective"}}

\* the lengths of b, constraint_signs, c and var_bounds when exactly one of
\* them is off by one against A's m rows of n entries
FaultyLengths(n, m) ==
    {l \in [b : {m - 1, m, m + 1}, sg : {m - 1, m, m + 1},
            c : {n - 1, n, n + 1}, vb : {n - 1, n, n + 1}] :
        /\ l.vb >= 1
        /\ Cardinality({f \in {"b", "sg", "c", "vb"} :
                           l[f] # (IF f \in {"b", "sg"} THEN m ELSE n)}) = 1}

\* problems whose dimensions do not match
MismatchedArgs(n) ==
    {ConfigArgs(t, [j \in 1..l.c |-> 1], A, [i \in 1..l.b |-> MaxB],
                [i \in 1..l.sg |-> "<="], [j \in 1..l.vb |-> ">="], o) :
        A \in [1..MaxRows -> RowChoices(n)], l \in FaultyLengths(n, MaxRows),
        t \in {"max", "min"}, o \in {"coordinates", "objective"}}

\* the step handed to SimplexSolver: omitted, or 2.0
SolverSteps == {<<>>, <<Fix(2)>>}

\* config.summary()
Summary ==
    /\ cfg # <<>>
    /\ out' = Outcome("summary", NoArgs, NoEnum, <<summary(cfg[1])>>, NoCall)
    /\ UNCHANGED <<cfg, solver, rep>>

\* solver.solve() (solver.py:175-194): enumerate, build the representation
\* unless the solver already holds one, then report by the configured
\* option.  _plot_domain returns at once, print_plot being False.
Solve ==
    /\ solver # <<>>
    /\ \E got \in {_calculate_intersection(cfg[1])} :
         IF got.raised # "none"
         THEN /\ out' = Outcome("solve", NoArgs, got, <<>>, Raised(got.raised, 0))
              /\ UNCHANGED solver
         ELSE \E r \in {IF solver[1].problem_representation = <<>>
                        THEN NewRepresentationObject(cfg[1].option, got.names, got.values,
                                                     LinearObjective(cfg[1].c),
                                                     cfg[1].objective_type)
                        ELSE solver[1].problem_representation[1]} :
                /\ solver' = <<[solver[1] EXCEPT !.problem_representation = <<r>>]>>
                /\ out' = Outcome("solve", NoArgs, got, <<>>,
                             IF cfg[1].option = "objective"
                             THEN objective_method(r, solver[1].step, TRUE)
                             ELSE IF cfg[1].option = "coordinates"
                             THEN coordinate_method(r)
                             ELSE NoCall)
    /\ UNCHANGED <<cfg, rep>>

Next ==
    \/ NewConfig(UNION {SolveArgs(n, m) : n \in Dimensions, m \in 1..MaxRows}
                    \cup UNION {MismatchedArgs(n) : n \in Dimensions})
    \/ \E step \in SolverSteps : NewSolver(step)
    \/ CalculateIntersection
    \/ Solve
    \/ Summary

Spec == Init /\ [][Next]_vars

(***************************************************************************)
(* The representation used on its own: the caller constructs it from a     *)
(* vertex list and an objective and calls its two report methods.          *)
(***************************************************************************)
\* at most MaxVertices vertices with coordinates up to MaxCoord, steps up
\* to MaxStep
MaxVertices == 3

MaxCoord == 1

MaxStep == 2

Options == {"coordinates", "objective"}

ObjectiveTypes == {"max", "min"}

Coefs == {-1, 0, 1}

PointChoices(n) ==
    IF n = 1 THEN [1..1 -> {Fix(k) : k \in 0..MaxCoord}]
    ELSE [1..2 -> {0, Fix(MaxCoord)}]

ObjectiveChoices(n, values) ==
    {LinearObjective(c) : c \in [1..n -> Coefs]}
        \cup {[kind |-> "callable", c |-> <<>>, f |-> f] :
                 f \in [Range(values) -> {0, Fix(1)}]}

StepChoices == {<<>>} \cup {<<Fix(k)>> : k \in 1..MaxStep}

\* the names the enumerator gives to a vertex list
NamesOf(values) == [i \in 1..Len(values) |-> VertexName(i - 1, values[i])]

\* SimplexProblemRepresentation(option, names, values, objective, type)
NewRepresentation ==
    /\ rep = <<>>
    /\ \E n \in Dimensions, len \in 0..MaxVertices :
         \E values \in [1..len -> PointChoices(n)] :
           \E objf \in ObjectiveChoices(n, values), option \in Options,
              objective_type \in ObjectiveTypes :
                rep' = <<NewRepresentationObject(option, NamesOf(values), values,
                                                 objf, objective_type)>>
    /\ UNCHANGED <<cfg, solver, out>>

\* rep.coordinate_method()
CoordinateMethod ==
    /\ rep # <<>>
    /\ \E call \in {coordinate_method(rep[1])} :
          out' = Outcome("coordinate_method", NoArgs, NoEnum, <<>>, call)
    /\ UNCHANGED <<cfg, solver, rep>>

\* rep.objective_method(step, print_result)
ObjectiveMethod ==
    /\ rep # <<>>
    /\ \E step \in StepChoices, print_result \in BOOLEAN :
         \E call \in {objective_method(rep[1], step, print_result)} :
            out' = Outcome("objective_method",
                           [step |-> step, print_result |-> print_result],
                           NoEnum, <<>>, call)
    /\ UNCHANGED <<cfg, solver, rep>>

NextSel ==
    \/ NewRepresentation
    \/ CoordinateMethod
    \/ ObjectiveMethod

SpecSel == Init /\ [][NextSel]_vars

(***************************************************************************)
(* Properties of the vertex enumerator (checked under SpecEnum).           *)
(***************************************************************************)
\* _calculate_intersection has returned its two lists
EnumReturned == out.op = "_calculate_intersection" /\ out.raised = "none"

\* a returned (rounded) vertex against one original row, tolerance 1e-8
RowSatisfied(aRow, bVal, sign, v) ==
    LET lhs == Dot(aRow, v)
        rhs == Fix(bVal)
    IN  /\ sign = "<=" => lhs <= rhs + Tol
        /\ sign = ">=" => lhs >= rhs - Tol
        /\ sign = "="  => Abs(lhs - rhs) <= Tol

\* C1: every returned vertex satisfies every original constraint row
\* within 1e-8, and x_j >= -1e-8 for every variable tagged ">=".
C1_VerticesSatisfyConstraints ==
    (EnumReturned /\ Range(cfg[1].constraint_signs) \subseteq Signs) =>
        \A k \in 1..Len(out.values) :
            /\ \A i \in 1..Len(cfg[1].A) :
                  RowSatisfied(cfg[1].A[i], cfg[1].b[i],
                               cfg[1].constraint_signs[i], out.values[k])
            /\ \A j \in 1..Len(cfg[1].var_bounds) :
                  cfg[1].var_bounds[j] = ">=" => out.values[k][j] >= -Tol

\* s with every repeat of an earlier element removed
RECURSIVE FirstOccurrences(_)
FirstOccurrences(s) ==
    IF s = <<>> THEN <<>>
    ELSE LET front == FirstOccurrences(SubSeq(s, 1, Len(s) - 1))
         IN  IF s[Len(s)] \in Range(front) THEN front ELSE Append(front, s[Len(s)])

\* C4: the returned vertex list holds no point twice, and a point found by
\* several combinations stands once, at the place of its first discovery.
C4_NoDuplicateVertices ==
    EnumReturned =>
        /\ \A i, k \in 1..Len(out.values) : i # k => out.values[i] # out.values[k]
        /\ out.values = FirstOccurrences(out.discovered)

\* a point was found by several combinations, before a later new vertex
C4_Witness ==
    /\ EnumReturned
    /\ \E i, k, l \in 1..Len(out.discovered) :
          /\ i < k /\ k < l
          /\ out.discovered[i] = out.discovered[k]
          /\ out.discovered[l] \notin {out.discovered[h] : h \in 1..k}

\* the number of vertices with a non-zero coordinate among the first i
NonOriginCount(values, i) == Cardinality({k \in 1..i : AnyNonZero(values[k])})

\* C5: the k-th vertex other than the all-zero point is named with the
\* k-th uppercase letter, wherever the all-zero point was discovered.
C5_LettersWithoutGap ==
    EnumReturned =>
        \A i \in 1..Len(out.values) :
            AnyNonZero(out.values[i]) =>
                out.names[i] = AsciiUppercase[NonOriginCount(out.values, i)]

\* C6: the all-zero point, when it is a vertex, is named "O".
C6_OriginNamedO ==
    EnumReturned =>
        \A i \in 1..Len(out.values) :
            ~AnyNonZero(out.values[i]) => out.names[i] = "O"

\* the all-zero point was discovered after another vertex
C6_Witness ==
    /\ EnumReturned
    /\ \E i \in 2..Len(out.values) :
          ~AnyNonZero(out.values[i]) /\ AnyNonZero(out.values[1]) /\ out.names[i] = "O"

(***************************************************************************)
(* Properties of the selection (checked under SpecSel).                    *)
(***************************************************************************)
\* a report method has run to its end on the caller's representation
Selected ==
    /\ out.op \in {"coordinate_method", "objective_method"}
    /\ out.raised = "none"

\* the objective value of the representation's objective at the point v
ObjectiveAt(r, v) ==
    IF r.objective_function.kind = "callable" THEN r.objective_function.f[v]
    ELSE Dot(r.objective_function.c, v)

\* C2: the vertex selected as optimal has an objective value >= that of
\* every enumerated vertex for "max", and <= for "min".
C2_SelectedIsOptimal ==
    Selected =>
        LET r    == rep[1]
            best == r.coordinates_values[out.best_idx[1] + 1]
        IN  /\ out.best_coords = <<best>>
            /\ \A i \in 1..Len(r.coordinates_values) :
                  /\ r.objective_type = "max" =>
                        ObjectiveAt(r, best) >= ObjectiveAt(r, r.coordinates_values[i])
                  /\ r.objective_type = "min" =>
                        ObjectiveAt(r, best) <= ObjectiveAt(r, r.coordinates_values[i])

\* the optimum is strictly better than the first vertex, under "max"
C2_Witness ==
    /\ Selected
    /\ rep[1].objective_type = "max"
    /\ out.best_idx[1] > 0
    /\ ObjectiveAt(rep[1], out.best_coords[1])
          > ObjectiveAt(rep[1], rep[1].coordinates_values[1])

\* C7: among several vertices attaining the optimal value, the one selected
\* is the first in the vertex list.
C7_FirstOptimalVertex ==
    Selected =>
        LET r == rep[1]
        IN  \A i \in 1..Len(r.coordinates_values) :
                ObjectiveAt(r, r.coordinates_values[i])
                    = ObjectiveAt(r, out.best_coords[1])
                  => i >= out.best_idx[1] + 1

\* two vertices share the optimal value and a worse vertex comes first
C7_Witness ==
    /\ Selected
    /\ out.best_idx[1] = 1
    /\ \E i \in 3..Len(rep[1].coordinates_values) :
          ObjectiveAt(rep[1], rep[1].coordinates_values[i])
              = ObjectiveAt(rep[1], out.best_coords[1])

\* the optimal objective value over the vertex list, in the direction of r
OptimalValue(r) ==
    LET Z == {ObjectiveAt(r, r.coordinates_values[i]) : i \in 1..Len(r.coordinates_values)}
    IN  IF r.objective_type = "max" THEN CHOOSE v \in Z : \A w \in Z : w <= v
        ELSE CHOOSE v \in Z : \A w \in Z : v <= w

\* C8: objective_method(step = s, print_result = False) returns the triple
\* (z* - s, z*, z* + s).
C8_ObjectiveLines ==
    (/\ out.op = "objective_method"
     /\ out.raised = "none"
     /\ ~out.args.print_result) =>
        LET zs == OptimalValue(rep[1])
            st == out.args.step[1]
        IN  out.returned = << <<zs - st, zs, zs + st>> >>

\* a triple was returned for step 2 around a non-zero optimum
C8_Witness ==
    /\ out.op = "objective_method"
    /\ out.raised = "none"
    /\ ~out.args.print_result
    /\ out.args.step = <<Fix(2)>>
    /\ out.returned = << <<Fix(-1), Fix(1), Fix(3)>> >>

\* C9: coordinate_method raises when the option is not "coordinates" and
\* objective_method raises when it is not "objective", before any objective
\* evaluation: nothing is printed and nothing is returned.
C9_WrongOptionRejected ==
    LET rejected == /\ out.raised = "ValueError"
                    /\ out.evals = 0
                    /\ ~out.printed
                    /\ out.returned = <<>>
    IN  /\ (out.op = "coordinate_method" /\ rep[1].option # "coordinates") => rejected
        /\ (out.op = "objective_method" /\ rep[1].option # "objective") => rejected

\* objective_method was refused on a "coordinates" representation that
\* holds vertices to evaluate
C9_Witness ==
    /\ out.op = "objective_method"
    /\ rep[1].option = "coordinates"
    /\ Len(rep[1].coordinates_values) >= 2
    /\ out.raised = "ValueError"

(***************************************************************************)
(* Properties of solve() and of the configuration (checked under Spec).    *)
(***************************************************************************)
\* Python's built-in exceptions the modelled code can end with
Crashes == {"IndexError", "ValueError", "TypeError"}

\* C3: when the enumeration yields no vertex, solve() ends in a "no
\* feasible solution" outcome: no vertex is reported as optimal and the
\* call does not end in an unrelated exception.
C3_InfeasibleReported ==
    (/\ out.op = "solve"
     /\ out.enumerated
     /\ out.values = <<>>
     /\ cfg[1].option \in {"coordinates", "objective"}) =>
        /\ out.raised \notin Crashes
        /\ out.best_idx = <<>>
        /\ out.best_name = <<>>

\* the lengths of the problem data agree
DimensionsMatch(config) ==
    /\ Len(config.b) = Len(config.A)
    /\ Len(config.constraint_signs) = Len(config.A)
    /\ \A i \in 1..Len(config.A) : Len(config.A[i]) = Len(config.c)
    /\ Len(config.var_bounds) = Len(config.c)

\* C10: no configuration object with mismatched lengths exists, and
\* summary() renders every row of A.
C10_MismatchRejected ==
    cfg # <<>> =>
        /\ DimensionsMatch(cfg[1])
        /\ out.op = "summary" => Len(out.summary[1].constraints) = Len(cfg[1].A)

(***************************************************************************)
(* Further properties of the vertex enumerator (checked under SpecEnum).   *)
(***************************************************************************)
\* the problem was constructed without var_bounds: the configuration then
\* holds None for every variable (configuration.py:70)
BoundsOmitted == \A j \in 1..Len(cfg[1].var_bounds) : cfg[1].var_bounds[j] = "None"

\* C11: for a problem constructed without var_bounds the enumerator appends
\* the n synthetic rows e_i . x >= 0 and returns only vertices whose
\* coordinates are all >= -1e-8.
C11_DefaultBoundsNonNegative ==
    (EnumReturned /\ BoundsOmitted) =>
        /\ Len(AugmentedA(cfg[1])) = Len(cfg[1].A) + NumVars(cfg[1])
        /\ \A k \in 1..Len(out.values) :
              \A j \in 1..Len(out.values[k]) : out.values[k][j] >= -Tol

(***************************************************************************)
(* summary() on its own: configurations over coefficient sequences of      *)
(* every sign pattern, rendered by config.summary().                       *)
(***************************************************************************)
\* coefficient sequences of at most MaxLen entries in -MaxCoef..MaxCoef
MaxLen == 3

MaxCoef == 2

CoefSeqs == UNION {[1..n -> (-MaxCoef)..MaxCoef] : n \in 0..MaxLen}

\* a problem with objective c and two rows derived from it: c negated, and
\* c reversed
SummaryArgs ==
    {ConfigArgs("max", c,
                << [j \in 1..Len(c) |-> -c[j]], [j \in 1..Len(c) |-> c[Len(c) + 1 - j]] >>,
                <<0, 1>>, <<"<=", ">=">>, <<>>, "coordinates") : c \in CoefSeqs}

NextSummary ==
    \/ NewConfig(SummaryArgs)
    \/ Summary

SpecSummary == Init /\ [][NextSummary]_vars

\* the positions of the non-zero coefficients, in variable order
NonZeroPositions(coefs) ==
    SelectSeq([j \in 1..Len(coefs) |-> j], LAMBDA j : coefs[j] # 0)

\* the written terms from the k-th non-zero position on: the separator by
\* sign and place, the magnitude unless it is 1, the variable
RECURSIVE WrittenTerms(_, _, _)
WrittenTerms(coefs, nz, k) ==
    IF k > Len(nz) THEN ""
    ELSE LET coef == coefs[nz[k]]
         IN  (IF k = 1 THEN (IF coef < 0 THEN "-" ELSE "")
              ELSE (IF coef < 0 THEN " - " ELSE " + "))
             \o (IF Abs(coef) = 1 THEN "" ELSE ToString(Abs(coef)))
             \o "x_{" \o ToString(nz[k]) \o "}"
             \o WrittenTerms(coefs, nz, k + 1)

\* the text the claim prescribes for a coefficient sequence
PrescribedExpression(coefs) ==
    IF NonZeroPositions(coefs) = <<>> THEN "0"
    ELSE WrittenTerms(coefs, NonZeroPositions(coefs), 1)

\* C12: summary() renders the objective and every constraint row as exactly
\* the non-zero terms in variable order, magnitude 1 without numeral, a
\* leading "-" only for a negative first term and never a leading "+",
\* " + " / " - " before every later term, and "0" for a sequence without
\* non-zero coefficient.
C12_ExpressionRendering ==
    out.op = "summary" =>
        /\ out.summary[1].objective = PrescribedExpression(cfg[1].c)
        /\ Len(out.summary[1].constraints) = Len(cfg[1].A)
        /\ \A i \in 1..Len(cfg[1].A) :
              out.summary[1].constraints[i]
                 = PrescribedExpression(cfg[1].A[i]) \o " "
                      \o TexSign(cfg[1].constraint_signs[i]) \o " "
                      \o ToString(cfg[1].b[i])

\* [1, 0, -1] was rendered as x_{1} - x_{3}, and its negation as a row
C12_Witness ==
    /\ out.op = "summary"
    /\ cfg[1].c = <<1, 0, -1>>
    /\ out.summary[1].objective = "x_{1} - x_{3}"
    /\ out.summary[1].constraints[1] = "-x_{1} + x_{3} \\leq 0"

\* an all-zero sequence and an empty one were rendered as 0
C12_ZeroWitness ==
    /\ out.op = "summary"
    /\ cfg[1].c \in {<<0, 0, 0>>, <<>>}
    /\ out.summary[1].objective = "0"

(***************************************************************************)
(* Completeness of the enumeration and the role of the bound tags          *)
(* (checked under SpecEnum).                                               *)
(***************************************************************************)
\* the choices of exactly n rows out of the augmented set
RowChoicesOf(config) ==
    {S \in SUBSET (1..Len(AugmentedA(config))) : Cardinality(S) = NumVars(config)}

\* a set of row indices in ascending order
RECURSIVE Ascending(_)
Ascending(S) ==
    IF S = {} THEN <<>>
    ELSE LET least == CHOOSE x \in S : \A y \in S : x <= y
         IN  <<least>> \o Ascending(S \ {least})

\* the square sub-matrix and right-hand side of a choice of rows
SubMatrix(config, S) == [i \in 1..Cardinality(S) |-> AugmentedA(config)[Ascending(S)[i]]]

SubVector(config, S) == [i \in 1..Cardinality(S) |-> AugmentedB(config)[Ascending(S)[i]]]

\* the sign of an augmented row: its own for an original row, ">=" for a
\* synthetic one
AugmentedSign(config, i) ==
    IF i <= Len(config.A) THEN config.constraint_signs[i] ELSE ">="

\* the exact point satisfies every augmented constraint within 1e-8
SatisfiesAugmented(config, point) ==
    \A i \in 1..Len(AugmentedA(config)) :
        RowFeasible(AugmentedA(config)[i], AugmentedB(config)[i],
                    AugmentedSign(config, i), point)

\* the choice has full rank and its unique solution is feasible
YieldsVertex(config, S) ==
    /\ Det(SubMatrix(config, S)) # 0
    /\ SatisfiesAugmented(config, LinalgSolve(SubMatrix(config, S), SubVector(config, S)))

\* C13: the enumeration runs to its end, and for every choice of n augmented
\* rows of full rank whose solution satisfies every augmented constraint
\* within 1e-8, the rounded solution is in the returned vertex list.
C13_EnumerationComplete ==
    out.op = "_calculate_intersection" =>
        /\ out.raised = "none"
        /\ \A S \in RowChoicesOf(cfg[1]) :
              YieldsVertex(cfg[1], S) =>
                  RoundPoint(LinalgSolve(SubMatrix(cfg[1], S), SubVector(cfg[1], S)))
                      \in Range(out.values)

\* a singular choice of rows was passed over, an infeasible intersection
\* was left out, and a choice made of the first row and a later one gave a
\* vertex
C13_Witness ==
    /\ EnumReturned
    /\ \E S \in RowChoicesOf(cfg[1]) : Det(SubMatrix(cfg[1], S)) = 0
    /\ \E S \in RowChoicesOf(cfg[1]) :
          Det(SubMatrix(cfg[1], S)) # 0 /\ ~YieldsVertex(cfg[1], S)
    /\ \E S \in RowChoicesOf(cfg[1]) : 1 \in S /\ YieldsVertex(cfg[1], S)
    /\ out.values # <<>>

\* the bound lists that agree with vb on every ">=" position and hold
\* "<=", "=" or None elsewhere
SameLowerBounds(vb) ==
    {w \in [1..Len(vb) -> {">=", "<=", "=", "None"}] :
        \A j \in 1..Len(vb) : (w[j] = ">=") <=> (vb[j] = ">=")}

\* C14: a problem that differs only in the var_bounds entries "<=", "=" or
\* None gets the same vertex names and coordinates in the same order.
C14_OnlyLowerBoundsMatter ==
    out.op = "_calculate_intersection" =>
        \A w \in SameLowerBounds(cfg[1].var_bounds) :
            LET other == _calculate_intersection([cfg[1] EXCEPT !.var_bounds = w])
            IN  /\ other.raised = out.raised
                /\ other.names = out.names
                /\ other.values = out.values

\* an enumeration with a vertex on a synthetic row, for a problem with one
\* ">=" tag and one other tag
C14_Witness ==
    /\ EnumReturned
    /\ \E i, j \in 1..Len(cfg[1].var_bounds) :
          cfg[1].var_bounds[i] = ">=" /\ cfg[1].var_bounds[j] # ">="
    /\ \E k \in 1..Len(out.values) : \E j \in 1..Len(out.values[k]) :
          cfg[1].var_bounds[j] = ">=" /\ out.values[k][j] = 0

(***************************************************************************)
(* One solver used for several solve() calls, the caller assigning to the  *)
(* configuration's attributes b and option in between.  The solver holds   *)
(* the configuration by reference (solver.py:24), so it sees every         *)
(* assignment.                                                             *)
(***************************************************************************)
\* problems in one variable with two rows
ReuseArgs ==
    {ConfigArgs(t, <<1>>, <<<<1>>, <<1>>>>, b, sg, vb, o) :
        b \in [1..2 -> 0..MaxB], sg \in [1..2 -> Signs], vb \in BoundChoices(1),
        t \in {"max", "min"}, o \in {"coordinates", "objective"}}

\* what an assignment leaves: no call result
Assigned == Outcome("assign", NoArgs, NoEnum, <<>>, NoCall)

\* config.b = b   (the attribute set at configuration.py:68)
SetProblemData ==
    /\ solver # <<>>
    /\ \E b \in [1..Len(cfg[1].A) -> 0..MaxB] :
          /\ b # cfg[1].b
          /\ cfg' = <<[cfg[1] EXCEPT !.b = b]>>
    /\ out' = Assigned
    /\ UNCHANGED <<solver, rep>>

\* config.option = option   (the attribute set at components.py:61)
SetOption ==
    /\ solver # <<>>
    /\ \E option \in {"coordinates", "objective"} :
          /\ option # cfg[1].option
          /\ cfg' = <<[cfg[1] EXCEPT !.option = option]>>
    /\ out' = Assigned
    /\ UNCHANGED <<solver, rep>>

NextReuse ==
    \/ NewConfig(ReuseArgs)
    \/ \E step \in SolverSteps : NewSolver(step)
    \/ Solve
    \/ SetProblemData
    \/ SetOption

SpecReuse == Init /\ [][NextReuse]_vars

\* the report of the configured option on a representation built from the
\* vertices enumerated in this call
ReportOfThisCall ==
    LET fresh == NewRepresentationObject(cfg[1].option, out.names, out.values,
                                         LinearObjective(cfg[1].c),
                                         cfg[1].objective_type)
    IN  IF cfg[1].option = "objective"
        THEN objective_method(fresh, solver[1].step, TRUE)
        ELSE coordinate_method(fresh)

\* C15: every solve() call reports the vertex table and the optimum of the
\* vertex set enumerated in that same call, under the option current in
\* that call; nothing of an earlier call is carried over.  (Stated for the
\* calls that enumerate a vertex and have a step to report with.)
C15_NoCarryOver ==
    (/\ out.op = "solve"
     /\ out.enumerated
     /\ out.values # <<>>
     /\ cfg[1].option = "objective" => solver[1].step # <<>>) =>
        /\ out.raised = ReportOfThisCall.raised
        /\ out.z_vals = ReportOfThisCall.z_vals
        /\ out.best_name = ReportOfThisCall.best_name
        /\ out.best_coords = ReportOfThisCall.best_coords
        /\ out.best_z = ReportOfThisCall.best_z

(***************************************************************************)
(* The step of a solver constructed without one (checked under Spec).      *)
(***************************************************************************)
\* C16: a solver constructed without a step, for a configuration whose
\* option is "objective", reports with the default step: solve() runs to
\* its end and reports the optimum.
C16_DefaultStepUsed ==
    (/\ out.op = "solve"
     /\ out.enumerated
     /\ out.values # <<>>
     /\ DimensionsMatch(cfg[1])
     /\ cfg[1].option = "objective"
     /\ solver[1].step = <<>>) =>
        /\ out.raised = "none"
        /\ out.best_z # <<>>
        /\ out.printed

(***************************************************************************)
(* The enumerator on problems with many vertices: the half-planes of the   *)
(* sides of a convex polygon with integer corners, moved so that one of    *)
(* its corners, or none, lies on the origin.                               *)
(***************************************************************************)
\* the corners of a convex 15-gon, counter-clockwise
PolygonCorners ==
    << <<0, 0>>, <<1, 0>>, <<3, 1>>, <<4, 2>>, <<5, 4>>, <<5, 5>>, <<4, 7>>, <<3, 8>>,
       <<1, 9>>, <<0, 9>>, <<-2, 8>>, <<-3, 7>>, <<-4, 5>>, <<-4, 4>>, <<-3, 2>> >>

\* the fewest sides a problem is made of
MinSides == 11

\* the corners moved by -t
MovedCorners(t) ==
    [i \in 1..Len(PolygonCorners) |->
        <<PolygonCorners[i][1] - t[1], PolygonCorners[i][2] - t[2]>>]

\* the half-plane to the left of the side from corner i to the next one,
\* as a row a . x <= b
SideRow(V, i) ==
    LET p == V[i]
        q == V[(i % Len(V)) + 1]
    IN  <<q[2] - p[2], p[1] - q[1]>>

SideBound(V, i) ==
    LET p == V[i]
        q == V[(i % Len(V)) + 1]
    IN  (q[2] - p[2]) * p[1] - (q[1] - p[1]) * p[2]

\* the problem of the first m sides, var_bounds omitted
PolygonArgs(t, m) ==
    ConfigArgs("max", <<1, 1>>,
               [i \in 1..m |-> SideRow(MovedCorners(t), i)],
               [i \in 1..m |-> SideBound(MovedCorners(t), i)],
               [i \in 1..m |-> "<="], <<>>, "coordinates")

NamingArgs ==
    {PolygonArgs(t, m) : t \in Range(PolygonCorners) \cup {<<1, 1>>},
                         m \in MinSides..Len(PolygonCorners)}

NextNaming ==
    \/ NewConfig(NamingArgs)
    \/ NewSolver(<<>>)
    \/ CalculateIntersection

SpecNaming == Init /\ [][NextNaming]_vars

\* C17: the enumerator gives every vertex a name, and the names are
\* pairwise distinct; in particular at most one vertex is named "O".
C17_NamesDistinct ==
    out.op = "_calculate_intersection" =>
        /\ out.raised = "none"
        /\ Len(out.names) = Len(out.values)
        /\ \A i, k \in 1..Len(out.names) : i # k => out.names[i] # out.names[k]

(***************************************************************************)
(* The optimisation direction: configurations over every kind of           *)
(* objective_type string the constructor accepts, summarised and solved.   *)
(***************************************************************************)
\* the two recognised values, their upper-case variants, and a string the
\* constructor only warns about (configuration.py:56-58)
ObjectiveTypeStrings == {"max", "min", "MAX", "MIN", "maximize"}

\* problems in one variable with two rows, var_bounds omitted
DirectionArgs ==
    {ConfigArgs(t, <<1>>, <<<<1>>, <<1>>>>, b, sg, <<>>, o) :
        b \in [1..2 -> 0..MaxB], sg \in [1..2 -> Signs],
        t \in ObjectiveTypeStrings, o \in {"coordinates", "objective"}}

NextDirection ==
    \/ NewConfig(DirectionArgs)
    \/ \E step \in SolverSteps : NewSolver(step)
    \/ Solve
    \/ Summary

SpecDirection == Init /\ [][NextDirection]_vars

\* C18: the direction summary() prints for the configuration is the
\* direction in which solve() selected the optimal vertex.
C18_DirectionsAgree ==
    (out.op = "solve" /\ out.raised = "none") =>
        /\ summary(cfg[1]).keyword = "\\text{max}" => out.best_z[1] = SeqMax(out.z_vals)
        /\ summary(cfg[1]).keyword = "\\text{min}" => out.best_z[1] = SeqMin(out.z_vals)

====
